---- MODULE Spec2Model ----
(***************************************************************************)
(* Model of the template server (server.py): the template table, the       *)
(* renderer render_template, the router handle_request and the accept loop *)
(* of run_server.                                                          *)
(*                                                                         *)
(* Python strings are sequences of one-character strings, so that          *)
(* str.replace, sorted() and the f-string formatting are computed and not  *)
(* assumed.  JSON values are records [k, s, n]: k is the kind, s the text  *)
(* of a string, n the number / the truth value / the number of elements.   *)
(***************************************************************************)
EXTENDS Integers, Sequences, FiniteSets, TLC

VARIABLES
    templates,  \* the table held by the server: [keys: insertion order, val: title -> body]
    pc,         \* run_server: "start", "bind", "failed", "accept" (s.accept), "read" (readline), "crashed"
    cur,        \* the connection of the current loop iteration, 0 when none
    backlog,    \* connections established and not yet accepted, in order
    conns,      \* per connection: what the client did and what the server did
    req,        \* handle_request check: the line given to the request step
    resp,       \* handle_request check: its outcome
    called,     \* handle_request check: the step has run
    body,       \* render_template check: the body argument
    fields,     \* render_template check: the fields argument
    rendered,   \* render_template check: the result
    done,       \* render_template check: the call has returned
    source,     \* the template source file: missing, unreadable, or its text
    loads,      \* how often run_server has read the source
    loaded,     \* loader check: the outcome of load_templates(source)
    viewBlocks, \* loader check: the outcome of load_template_blocks()
    cli         \* the command-line client: its arguments, position and socket use

vars == <<templates, pc, cur, backlog, conns, req, resp, called, body, fields, rendered, done,
          source, loads, loaded, viewBlocks, cli>>

serverVars == <<pc, cur, backlog, conns>>
handleVars == <<req, resp, called>>
renderVars == <<body, fields, rendered, done>>
loadVars == <<source, loads, loaded, viewBlocks>>
cliVars == <<cli>>

(***************************************************************************)
(* Bounds                                                                  *)
(***************************************************************************)
MaxKeys == 2        \* templates in a table
MaxPieces == 3      \* pieces concatenated into a body given to render_template
MaxListLen == 1     \* elements of a JSON list / members of a JSON object
MaxConns == 2       \* client connections over the life of the server
MaxLines == 4       \* lines of a template source file

(***************************************************************************)
(* Text                                                                    *)
(***************************************************************************)
Empty == << >>

\* Code points of the characters that occur in titles (sorted() compares them).
CodePoint(c) ==
    CASE c = " " -> 32
      [] c = "B" -> 66
      [] c = "a" -> 97
      [] c = "b" -> 98
      [] OTHER -> 0

\* Python's str < str: lexicographic by code point, a proper prefix is smaller.
RECURSIVE StrLess(_, _)
StrLess(a, b) ==
    IF b = << >> THEN FALSE
    ELSE IF a = << >> THEN TRUE
    ELSE IF CodePoint(Head(a)) # CodePoint(Head(b))
         THEN CodePoint(Head(a)) < CodePoint(Head(b))
         ELSE StrLess(Tail(a), Tail(b))

\* s.startswith(p)
StartsWith(s, p) == Len(s) >= Len(p) /\ SubSeq(s, 1, Len(p)) = p

\* str.replace(old, new) for a non-empty old: left to right, non-overlapping.
RECURSIVE Replace(_, _, _)
Replace(s, old, new) ==
    IF Len(s) < Len(old) THEN s
    ELSE IF StartsWith(s, old)
         THEN new \o Replace(SubSeq(s, Len(old) + 1, Len(s)), old, new)
         ELSE <<Head(s)>> \o Replace(Tail(s), old, new)

Digit(d) == CASE d = 0 -> "0" [] d = 1 -> "1" [] d = 2 -> "2" [] d = 3 -> "3"
              [] d = 4 -> "4" [] d = 5 -> "5" [] d = 6 -> "6" [] d = 7 -> "7"
              [] d = 8 -> "8" [] OTHER -> "9"

RECURSIVE StrNat(_)
StrNat(n) == IF n < 10 THEN <<Digit(n)>> ELSE StrNat(n \div 10) \o <<Digit(n % 10)>>

(***************************************************************************)
(* JSON values as json.loads returns them                                  *)
(***************************************************************************)
Absent == [k |-> "absent", s |-> Empty, n |-> 0]   \* the member is not in the object
Null == [k |-> "null", s |-> Empty, n |-> 0]
Bool(b) == [k |-> "bool", s |-> Empty, n |-> IF b THEN 1 ELSE 0]
Num(i) == [k |-> "num", s |-> Empty, n |-> i]
Str(t) == [k |-> "str", s |-> t, n |-> 0]
List(len) == [k |-> "list", s |-> Empty, n |-> len]   \* [0, 0, ...] with len elements
Obj(len) == [k |-> "obj", s |-> Empty, n |-> len]     \* {'k1': 0, ...} with len members

\* Python truth value (the `not x` and `x or y` tests)
Truthy(v) ==
    CASE v.k = "absent" -> FALSE      \* dict.get returned None
      [] v.k = "null" -> FALSE
      [] v.k = "str" -> v.s # Empty
      [] OTHER -> v.n # 0             \* bool, num, list, obj

\* hash(v) succeeds: lists and dicts are unhashable
Hashable(v) == v.k \notin {"list", "obj"}

RECURSIVE ReprItems(_, _)
ReprItems(item, len) ==
    IF len = 0 THEN Empty
    ELSE IF len = 1 THEN item
    ELSE item \o <<",", " ">> \o ReprItems(item, len - 1)

\* format(v) as an f-string field does it; an absent member was replaced by
\* the default of dict.get before it is formatted.
Format(v) ==
    CASE v.k = "str" -> v.s
      [] v.k = "num" -> StrNat(v.n)
      [] v.k = "bool" -> IF v.n = 1 THEN <<"T", "r", "u", "e">> ELSE <<"F", "a", "l", "s", "e">>
      [] v.k = "list" -> <<"[">> \o ReprItems(<<"0">>, v.n) \o <<"]">>
      [] v.k = "obj" -> <<"{">> \o ReprItems(<<"'", "k", "'", ":", " ", "0">>, v.n) \o <<"}">>
      [] OTHER -> <<"N", "o", "n", "e">>

(***************************************************************************)
(* The fields member: a JSON value that, when an object, maps keys to      *)
(* values.  FOO stands for a key that is not a placeholder.                *)
(***************************************************************************)
FieldKeys == {"DAY", "DATE", "TIME", "FOO"}

NoMembers == [key \in FieldKeys |-> Absent]

NotDict(v) == [k |-> v.k, s |-> v.s, n |-> v.n, m |-> NoMembers]

Dict(m) == [k |-> "obj", s |-> Empty,
            n |-> Cardinality({key \in FieldKeys : m[key] # Absent}), m |-> m]

EmptyDict == Dict(NoMembers)

\* d.get(key, default) on a dict d (a record made by Dict)
DictGet(d, key, default) == IF d.m[key] = Absent THEN default ELSE d.m[key]

KeyText(key) ==
    CASE key = "DAY" -> <<"D", "A", "Y">>
      [] key = "DATE" -> <<"D", "A", "T", "E">>
      [] key = "TIME" -> <<"T", "I", "M", "E">>
      [] OTHER -> <<"F", "O", "O">>

\* "{" + key + "}"
Placeholder(key) == <<"{">> \o KeyText(key) \o <<"}">>

(***************************************************************************)
(* render_template                                                         *)
(***************************************************************************)
\* One turn of the loop: body = body.replace("{" + key + "}", str(fields.get(key, "")))
substitute(b, f, key) == Replace(b, Placeholder(key), Format(DictGet(f, key, Str(Empty))))

\* mutant: the loop stops before TIME
render_template_no_time(b, f) == substitute(substitute(b, f, "DAY"), f, "DATE")

\* for key in ("DAY", "DATE", "TIME"): ...; return body
render_template(b, f) ==
    substitute(substitute(substitute(b, f, "DAY"), f, "DATE"), f, "TIME")

(***************************************************************************)
(* The template table (a dict: insertion order and values)                 *)
(***************************************************************************)
HasKey(t, title) == title.k = "str" /\ title.s \in DOMAIN t.val

\* insertion of x into an ascending list
RECURSIVE Insert(_, _)
Insert(x, s) ==
    IF s = << >> THEN <<x>>
    ELSE IF StrLess(x, Head(s)) THEN <<x>> \o s
    ELSE <<Head(s)>> \o Insert(x, Tail(s))

\* sorted(list_of_str)
RECURSIVE sorted(_)
sorted(s) == IF s = << >> THEN << >> ELSE Insert(Head(s), sorted(Tail(s)))

(***************************************************************************)
(* Responses: has is the set of members of the response dict; exc is the   *)
(* exception raised instead of returning, "" when the call returned.       *)
(***************************************************************************)
LIST_BUTTONS == <<"L", "I", "S", "T", "_", "B", "U", "T", "T", "O", "N", "S">>
GET_TEMPLATE == <<"G", "E", "T", "_", "T", "E", "M", "P", "L", "A", "T", "E">>
RENDER_TEMPLATE == <<"R", "E", "N", "D", "E", "R", "_", "T", "E", "M", "P", "L", "A", "T", "E">>

NoResp == [exc |-> "", has |-> {}, ok |-> FALSE, type |-> Empty, buttons |-> << >>,
           title |-> Absent, body |-> Empty, error |-> Empty]

Raise(e) == [NoResp EXCEPT !.exc = e]

ErrorResp(msg) == [NoResp EXCEPT !.has = {"ok", "error"}, !.ok = FALSE, !.error = msg]

ButtonsResp(bs) ==
    [NoResp EXCEPT !.has = {"ok", "type", "buttons"}, !.ok = TRUE,
                   !.type = LIST_BUTTONS, !.buttons = bs]

BodyResp(rtype, title, b) ==
    [NoResp EXCEPT !.has = {"ok", "type", "title", "body"}, !.ok = TRUE,
                   !.type = rtype, !.title = title, !.body = b]

MsgMissingType == <<"M", "i", "s", "s", "i", "n", "g", " ", "r", "e", "q", "u", "e", "s", "t", " ", "f", "i", "e", "l", "d", ":", " ", "t", "y", "p", "e">>
MsgUnknownTitle == <<"U", "n", "k", "n", "o", "w", "n", " ", "t", "i", "t", "l", "e", ":", " ">>
MsgFieldsNotDict == <<"f", "i", "e", "l", "d", "s", " ", "m", "u", "s", "t", " ", "b", "e", " ", "a", "n", " ", "o", "b", "j", "e", "c", "t", "/", "d", "i", "c", "t">>
MsgUnknownType == <<"U", "n", "k", "n", "o", "w", "n", " ", "r", "e", "q", "u", "e", "s", "t", " ", "t", "y", "p", "e", ":", " ">>
MsgInvalidJSON == <<"I", "n", "v", "a", "l", "i", "d", " ", "J", "S", "O", "N", ":", " ">>

(***************************************************************************)
(* handle_request.  A request is the parsed top-level JSON value: top is   *)
(* its kind and, for an object, type/title/fields are its members.         *)
(***************************************************************************)
\* req.get(name): None when the member is absent
Get(v) == IF v = Absent THEN Null ELSE v

\* req.get("title", "")
GetTitle(r) == IF r.title = Absent THEN Str(Empty) ELSE r.title

\* mutant: the titles in the order of the table
list_buttons_unsorted(t) == ButtonsResp(t.keys)

\* the LIST_BUTTONS branch
list_buttons(t) == ButtonsResp(sorted(t.keys))

\* mutant: an unknown title is answered with ok true beside the error
get_template_ok_error(r, t) ==
    LET title == GetTitle(r) IN
    IF ~Hashable(title) THEN Raise("TypeError")
    ELSE IF ~HasKey(t, title)
         THEN [ErrorResp(MsgUnknownTitle \o Format(title)) EXCEPT !.ok = TRUE]
    ELSE BodyResp(GET_TEMPLATE, title, t.val[title.s])

\* mutant: the stored body is rendered with no fields
get_template_rendered(r, t) ==
    LET title == GetTitle(r) IN
    IF ~Hashable(title) THEN Raise("TypeError")
    ELSE IF ~HasKey(t, title) THEN ErrorResp(MsgUnknownTitle \o Format(title))
    ELSE BodyResp(GET_TEMPLATE, title, render_template(t.val[title.s], EmptyDict))

\* the GET_TEMPLATE branch
get_template(r, t) ==
    LET title == GetTitle(r) IN
    IF ~Hashable(title) THEN Raise("TypeError")
    ELSE IF ~HasKey(t, title) THEN ErrorResp(MsgUnknownTitle \o Format(title))
    ELSE BodyResp(GET_TEMPLATE, title, t.val[title.s])

\* fields = req.get("fields") or {}
FieldsOrEmpty(r) == IF Truthy(r.fields) THEN r.fields ELSE EmptyDict

\* the RENDER_TEMPLATE branch
render_branch(r, t) ==
    LET title == GetTitle(r)
        f == FieldsOrEmpty(r)
    IN  IF ~Hashable(title) THEN Raise("TypeError")
        ELSE IF ~HasKey(t, title) THEN ErrorResp(MsgUnknownTitle \o Format(title))
        ELSE IF f.k # "obj" THEN ErrorResp(MsgFieldsNotDict)
        ELSE BodyResp(RENDER_TEMPLATE, title, render_template(t.val[title.s], f))

\* mutant: only an absent member counts as missing
type_missing_absent_only(r) == r.type = Absent

\* rtype = req.get("type"); if not rtype: ...
type_missing(r) == ~Truthy(Get(r.type))

handle_request(r, t) ==
    IF r.top # "obj" THEN Raise("AttributeError")
    ELSE LET rtype == Get(r.type) IN
         IF type_missing(r) THEN ErrorResp(MsgMissingType)
         ELSE IF rtype = Str(LIST_BUTTONS) THEN list_buttons(t)
         ELSE IF rtype = Str(GET_TEMPLATE) THEN get_template(r, t)
         ELSE IF rtype = Str(RENDER_TEMPLATE) THEN render_branch(r, t)
         ELSE ErrorResp(MsgUnknownType \o Format(rtype))

(***************************************************************************)
(* Checking render_template: the arguments are drawn from bounded sets and *)
(* the call is one step.                                                   *)
(***************************************************************************)
Pieces == {Placeholder("DAY"), Placeholder("DATE"), Placeholder("TIME"), Placeholder("FOO"),
           <<"{", "D", "A">>, <<"T", "E", "}">>, <<"x">>}

RECURSIVE PieceBodies(_)
PieceBodies(n) ==
    IF n = 0 THEN {Empty}
    ELSE LET shorter == PieceBodies(n - 1) IN
         shorter \cup {p \o b : p \in Pieces, b \in shorter}

RenderBodies == PieceBodies(MaxPieces)

DayValues == {Absent, Null, Str(Empty), Str(<<"M", "O", "N">>), Str(Placeholder("TIME"))}
DateValues == {Absent, Str(<<"1", "/", "2", "6">>), Str(Placeholder("TIME"))}
TimeValues == {Absent, Str(<<"4", " ", "P", "M">>), Str(Placeholder("DAY"))}
FooValues == {Absent, Str(<<"x">>)}

RenderFields ==
    {Dict([DAY |-> d, DATE |-> e, TIME |-> t, FOO |-> o]) :
        d \in DayValues, e \in DateValues, t \in TimeValues, o \in FooValues}

call_render ==
    /\ ~done
    /\ rendered' = render_template(body, fields)
    /\ done' = TRUE
    /\ UNCHANGED <<body, fields, templates, serverVars, handleVars, loadVars, cliVars>>

(***************************************************************************)
(* Text operations of the loaders                                          *)
(***************************************************************************)
\* str.isspace for the characters of the sources
IsSpace(c) == c \in {" ", "\n", "\t", "\r"}

\* s.lstrip() / s.rstrip() / s.strip()
RECURSIVE LStrip(_)
LStrip(s) == IF s # << >> /\ IsSpace(Head(s)) THEN LStrip(Tail(s)) ELSE s

RECURSIVE RStrip(_)
RStrip(s) == IF s # << >> /\ IsSpace(s[Len(s)]) THEN RStrip(SubSeq(s, 1, Len(s) - 1)) ELSE s

Strip(s) == RStrip(LStrip(s))

\* s.lstrip("\n")
RECURSIVE LStripNewlines(_)
LStripNewlines(s) == IF s # << >> /\ Head(s) = "\n" THEN LStripNewlines(Tail(s)) ELSE s

\* s.split(sep) for a non-empty sep: the pieces between the occurrences of
\* sep, found from left to right; always at least one piece.
RECURSIVE SplitFrom(_, _, _)
SplitFrom(s, sep, piece) ==
    IF s = << >> THEN <<piece>>
    ELSE IF StartsWith(s, sep)
         THEN <<piece>> \o SplitFrom(SubSeq(s, Len(sep) + 1, Len(s)), sep, << >>)
         ELSE SplitFrom(Tail(s), sep, Append(piece, Head(s)))

Split(s, sep) == SplitFrom(s, sep, << >>)

\* s.splitlines(): the lines without their line feed; no last empty line
\* after a final line feed, no line at all for the empty string.
SplitLines(s) ==
    IF s = << >> THEN << >>
    ELSE LET parts == Split(s, <<"\n">>) IN
         IF parts[Len(parts)] = << >> THEN SubSeq(parts, 1, Len(parts) - 1) ELSE parts

\* sep.join(parts)
RECURSIVE Join(_, _)
Join(parts, sep) ==
    IF parts = << >> THEN << >>
    ELSE IF Len(parts) = 1 THEN parts[1]
    ELSE parts[1] \o sep \o Join(Tail(parts), sep)

Separator == <<"-", "-", "-">>

(***************************************************************************)
(* The template source and load_templates                                  *)
(***************************************************************************)
MissingSource == [k |-> "missing", text |-> Empty]
UnreadableSource == [k |-> "unreadable", text |-> Empty]
TextSource(raw) == [k |-> "text", text |-> raw]

EmptyTable == [keys |-> << >>, val |-> << >>]

\* mutant: a title already in the table keeps its first body
DictSetFirstWins(t, title, b) ==
    IF title \in DOMAIN t.val THEN t
    ELSE [keys |-> Append(t.keys, title), val |-> (title :> b) @@ t.val]

\* templates[title] = body
DictSet(t, title, b) ==
    IF title \in DOMAIN t.val
    THEN [keys |-> t.keys, val |-> [t.val EXCEPT ![title] = b]]
    ELSE [keys |-> Append(t.keys, title), val |-> (title :> b) @@ t.val]

\* blocks = [b.strip() for b in raw.split("---")]
Blocks(raw) == LET parts == Split(raw, Separator) IN [i \in DOMAIN parts |-> Strip(parts[i])]

\* mutant: the title line is not trimmed
BlockTitleUntrimmed(block) == SplitLines(block)[1]

\* title = lines[0].strip()
BlockTitle(block) == Strip(SplitLines(block)[1])

\* body = "\n".join(lines[1:]).lstrip("\n")
BlockBody(block) == LStripNewlines(Join(Tail(SplitLines(block)), <<"\n">>))

\* the loop over the blocks, from block i on, with the table built so far
RECURSIVE LoadBlocks(_, _, _)
LoadBlocks(blocks, i, t) ==
    IF i > Len(blocks) THEN t
    ELSE IF blocks[i] = << >> THEN LoadBlocks(blocks, i + 1, t)
    ELSE IF BlockTitle(blocks[i]) = << >> THEN LoadBlocks(blocks, i + 1, t)
    ELSE LoadBlocks(blocks, i + 1, DictSet(t, BlockTitle(blocks[i]), BlockBody(blocks[i])))

\* the outcome of a loader: exc is the exception raised, "" when it returned
Loaded(t) == [exc |-> "", table |-> t]
LoadFailed(e) == [exc |-> e, table |-> EmptyTable]
NotLoaded == [exc |-> "none", table |-> EmptyTable]

\* open(path) raises for a file that is missing or may not be read
OpenError(src) == IF src.k = "missing" THEN "FileNotFoundError" ELSE "PermissionError"

\* mutant: the test for an empty block is missing, lines[0] raises for it
load_templates_no_empty_check(src) ==
    IF src.k # "text" THEN LoadFailed(OpenError(src))
    ELSE IF \E i \in DOMAIN Blocks(src.text) : Blocks(src.text)[i] = << >>
         THEN LoadFailed("IndexError")
    ELSE Loaded(LoadBlocks(Blocks(src.text), 1, EmptyTable))

load_templates(src) ==
    IF src.k # "text" THEN LoadFailed(OpenError(src))
    ELSE Loaded(LoadBlocks(Blocks(src.text), 1, EmptyTable))


(***************************************************************************)
(* The web view's loader (django/templates_app/views.py)                   *)
(***************************************************************************)
ButtonMarker == <<"{", "B", "u", "t", "t", "o", "n", "}">>

\* while lines and not lines[0].strip(): lines.pop(0)
RECURSIVE DropLeadingBlank(_)
DropLeadingBlank(lines) ==
    IF lines # << >> /\ Strip(Head(lines)) = << >> THEN DropLeadingBlank(Tail(lines)) ELSE lines

\* while lines and not lines[-1].strip(): lines.pop()
RECURSIVE DropTrailingBlank(_)
DropTrailingBlank(lines) ==
    IF lines # << >> /\ Strip(lines[Len(lines)]) = << >>
    THEN DropTrailingBlank(SubSeq(lines, 1, Len(lines) - 1))
    ELSE lines

\* header.replace("{Button}", "", 1).strip() for a header that starts with the
\* marker, then the "=" in front of the title is dropped
HeaderTitle(header) ==
    LET remainder == Strip(SubSeq(header, Len(ButtonMarker) + 1, Len(header))) IN
    IF StartsWith(remainder, <<"=">>) THEN Strip(Tail(remainder)) ELSE remainder

\* the loop over raw_blocks, from block i on, with the list built so far
RECURSIVE ParseBlocks(_, _, _)
ParseBlocks(raw_blocks, i, blocks) ==
    IF i > Len(raw_blocks) THEN blocks
    ELSE LET chunk == Strip(raw_blocks[i])
             lines == DropTrailingBlank(DropLeadingBlank(SplitLines(chunk)))
         IN  IF chunk = << >> \/ lines = << >> THEN ParseBlocks(raw_blocks, i + 1, blocks)
             ELSE IF ~StartsWith(Strip(lines[1]), ButtonMarker)
                  THEN ParseBlocks(raw_blocks, i + 1, blocks)
             ELSE IF HeaderTitle(Strip(lines[1])) = << >>
                  THEN ParseBlocks(raw_blocks, i + 1, blocks)
             ELSE ParseBlocks(raw_blocks, i + 1,
                      Append(blocks, [title |-> HeaderTitle(Strip(lines[1])),
                                      body |-> Strip(Join(Tail(lines), <<"\n">>))]))

\* _parse_templates_txt
parse_templates_txt(text) == ParseBlocks(Split(text, Separator), 1, << >>)

ViewLoaded(blocks) == [exc |-> "", blocks |-> blocks]
ViewFailed(e) == [exc |-> e, blocks |-> << >>]
ViewNotLoaded == [exc |-> "none", blocks |-> << >>]

\* load_template_blocks: a missing file gives [], read_text raises for a
\* file that may not be read
load_template_blocks(src) ==
    IF src.k = "missing" THEN ViewLoaded(<< >>)
    ELSE IF src.k = "unreadable" THEN ViewFailed("PermissionError")
    ELSE ViewLoaded(parse_templates_txt(src.text))

(***************************************************************************)
(* Checking the loaders: the source is drawn from the files of at most     *)
(* MaxLines lines, and each loader is called once.                         *)
(***************************************************************************)
LineTexts ==
    {Empty, <<" ">>, Separator, <<"a">>, <<" ", "B", " ">>, <<"a", "-", "-", "-", "b">>, <<"-", "-", "-", "-">>, <<"{", "B", "u", "t", "t", "o", "n", "}", " ", "=", " ", "a">>}

RECURSIVE LineSeqs(_)
LineSeqs(n) ==
    IF n = 0 THEN {<< >>}
    ELSE LET shorter == LineSeqs(n - 1) IN
         shorter \cup {Append(ls, l) : ls \in shorter, l \in LineTexts}

\* the text of a file made of these lines, each ended by a line feed
RECURSIVE FileText(_)
FileText(lines) == IF lines = << >> THEN << >> ELSE Head(lines) \o <<"\n">> \o FileText(Tail(lines))

SourceTexts == {FileText(ls) : ls \in LineSeqs(MaxLines)} \cup {Join(ls, <<"\n">>) : ls \in LineSeqs(MaxLines)}

Sources == {MissingSource, UnreadableSource} \cup {TextSource(raw) : raw \in SourceTexts}

call_load_templates ==
    /\ loaded = NotLoaded
    /\ loaded' = load_templates(source)
    /\ UNCHANGED <<source, loads, viewBlocks, templates, serverVars, handleVars, renderVars, cliVars>>

call_load_template_blocks ==
    /\ viewBlocks = ViewNotLoaded
    /\ viewBlocks' = load_template_blocks(source)
    /\ UNCHANGED <<source, loads, loaded, templates, serverVars, handleVars, renderVars, cliVars>>



(***************************************************************************)
(* Tables the loader can produce: distinct, non-empty, trimmed titles in   *)
(* block order, each with a body.                                          *)
(***************************************************************************)
Titles == {<<"B">>, <<"a">>, <<"a", "b">>}

StoreBodies == {<<"S", "e", "e", " ", "y", "o", "u", " ", "{", "D", "A", "Y", "}", " ", "a", "t", " ", "{", "T", "I", "M", "E", "}">>, <<"{", "F", "O", "O", "}", "{", "D", "A", "T", "E", "}">>}

Range(s) == {s[i] : i \in DOMAIN s}

RECURSIVE KeySeqs(_)
KeySeqs(n) ==
    IF n = 0 THEN {<< >>}
    ELSE LET shorter == KeySeqs(n - 1) IN
         shorter \cup {Append(ks, t) : ks \in shorter, t \in Titles}

DistinctKeySeqs == {ks \in KeySeqs(MaxKeys) : Cardinality(Range(ks)) = Len(ks)}

Stores ==
    UNION {{[keys |-> ks, val |-> v] : v \in [Range(ks) -> StoreBodies]} : ks \in DistinctKeySeqs}

\* the table of the spec's end-to-end examples
DemoStore ==
    [keys |-> <<<<"a", "b">>, <<"B">>>>,
     val |-> (<<"a", "b">> :> <<"S", "e", "e", " ", "y", "o", "u", " ", "{", "D", "A", "Y", "}", " ", "a", "t", " ", "{", "T", "I", "M", "E", "}">>)
             @@ (<<"B">> :> <<"{", "F", "O", "O", "}", "{", "D", "A", "T", "E", "}">>)]

(***************************************************************************)
(* Lines a client can send.  k = "json": the line parses, and req is the   *)
(* parsed value; otherwise decode or json.loads raises.                    *)
(***************************************************************************)
Request(top, type, title, f) == [top |-> top, type |-> type, title |-> title, fields |-> f]

NoRequest == Request("none", Absent, Absent, NotDict(Absent))

NoLine == [k |-> "none", req |-> NoRequest]
BadUtf8Line == [k |-> "badutf8", req |-> NoRequest]
BadJsonLine == [k |-> "badjson", req |-> NoRequest]
JsonLine(r) == [k |-> "json", req |-> r]

Containers == {List(n) : n \in 0..MaxListLen} \cup {Obj(n) : n \in 0..MaxListLen}

TypeValues ==
    {Absent, Null, Bool(FALSE), Bool(TRUE), Num(0), Num(1), Str(Empty), Str(<<"P", "I", "N", "G">>),
     Str(LIST_BUTTONS), Str(GET_TEMPLATE), Str(RENDER_TEMPLATE)} \cup Containers

TitleValues ==
    {Absent, Null, Num(0), Str(Empty), Str(<<"a">>), Str(<<"a", "b">>), Str(<<"m", "i", "s", "s", "i", "n", "g">>)} \cup Containers

FieldsDicts ==
    {Dict([DAY |-> d, DATE |-> Absent, TIME |-> t, FOO |-> o]) :
        d \in {Absent, Null, Str(<<"M", "O", "N">>)}, t \in {Absent, Str(Placeholder("DAY"))},
        o \in {Absent, Str(<<"x">>)}}

FieldsValues ==
    {NotDict(v) : v \in {Absent, Null, Bool(FALSE), Bool(TRUE), Num(0), Num(1), Str(Empty), Str(<<"x">>)}
                        \cup {List(n) : n \in 0..MaxListLen}}
    \cup FieldsDicts

ObjectRequests ==
    {Request("obj", ty, ti, f) : ty \in TypeValues, ti \in TitleValues, f \in FieldsValues}

\* a number, a string, a list, null, a boolean at the top level
NonObjectRequests == {Request(top, Absent, Absent, NotDict(Absent)) : top \in {"num", "str", "list", "null", "bool"}}

Lines == {BadUtf8Line, BadJsonLine} \cup {JsonLine(r) : r \in ObjectRequests \cup NonObjectRequests}

\* str(e) of the exception raised by line.decode("utf-8") or json.loads
ExcText(line) ==
    IF line.k = "badutf8"
    THEN <<"'", "u", "t", "f", "-", "8", "'", " ", "c", "o", "d", "e", "c", " ", "c", "a", "n", "'", "t", " ", "d", "e", "c", "o", "d", "e", " ", "b", "y", "t", "e", " ", "0", "x", "f", "f", " ", "i", "n", " ", "p", "o", "s", "i", "t", "i", "o", "n", " ", "0", ":", " ", "i", "n", "v", "a", "l", "i", "d", " ", "s", "t", "a", "r", "t", " ", "b", "y", "t", "e">>
    ELSE <<"E", "x", "p", "e", "c", "t", "i", "n", "g", " ", "v", "a", "l", "u", "e", ":", " ", "l", "i", "n", "e", " ", "1", " ", "c", "o", "l", "u", "m", "n", " ", "1", " ", "(", "c", "h", "a", "r", " ", "0", ")">>

(***************************************************************************)
(* run_server, from the parsed line to the response: the try/except around *)
(* json.loads and the call of handle_request.  routed tells whether        *)
(* handle_request was called.                                              *)
(***************************************************************************)
respond(line, t) ==
    IF line.k # "json"
    THEN [routed |-> FALSE, resp |-> ErrorResp(MsgInvalidJSON \o ExcText(line))]
    ELSE [routed |-> TRUE, resp |-> handle_request(line.req, t)]

NoOutcome == [routed |-> FALSE, resp |-> NoResp]

call_respond ==
    /\ ~called
    /\ resp' = respond(req, templates)
    /\ called' = TRUE
    /\ UNCHANGED <<req, templates, serverVars, renderVars, loadVars, cliVars>>

(***************************************************************************)
(* run_server: the accept loop and its clients.                            *)
(*   st    "new" (not connected), "queued" (connected, not yet accepted),  *)
(*         "accepted", "closed" (the server left the `with conn` block)    *)
(*   line  the line the client sent, NoLine when it sent nothing           *)
(*   peer  "open", "fin" (the client closed), "rst" (the client reset)     *)
(*   out   the response lines the server wrote                             *)
(*   nread calls of readline, routed calls of handle_request               *)
(*   exc   the exception that left the loop while serving this connection  *)
(* pc is "start" before load_templates, "bind" between the load and        *)
(* s.listen(), "failed" when the load raised, then "accept" / "read" in    *)
(* the loop and "crashed" when an exception left the loop.                 *)
(***************************************************************************)
ConnIds == 1..MaxConns

NewConn == [st |-> "new", line |-> NoLine, peer |-> "open", out |-> << >>,
            nread |-> 0, routed |-> 0, exc |-> ""]

ListRequest == Request("obj", Str(LIST_BUTTONS), Absent, NotDict(Absent))
GetRequest == Request("obj", Str(GET_TEMPLATE), Str(<<"a", "b">>), NotDict(Absent))
RenderRequest ==
    Request("obj", Str(RENDER_TEMPLATE), Str(<<"a", "b">>),
            Dict([NoMembers EXCEPT !["DAY"] = Str(<<"M", "O", "N">>)]))

WireRequests ==
    {ListRequest, GetRequest, RenderRequest,
     Request("obj", Absent, Absent, NotDict(Absent)),
     Request("obj", Str(GET_TEMPLATE), List(0), NotDict(Absent)),
     Request("num", Absent, Absent, NotDict(Absent))}

WireLines == {BadUtf8Line, BadJsonLine} \cup {JsonLine(r) : r \in WireRequests}

\* a client connects (the kernel queues the connection until s.accept takes it)
Connect(c) ==
    /\ pc \in {"accept", "read"}
    /\ conns[c].st = "new"
    /\ \A d \in ConnIds : d < c => conns[d].st # "new"
    /\ conns' = [conns EXCEPT ![c].st = "queued"]
    /\ backlog' = Append(backlog, c)
    /\ UNCHANGED <<pc, cur, templates, handleVars, renderVars, loadVars, cliVars>>

\* a client sends its line
Send(c, l) ==
    /\ conns[c].st \in {"queued", "accepted"}
    /\ conns[c].peer = "open"
    /\ conns[c].line = NoLine
    /\ conns' = [conns EXCEPT ![c].line = l]
    /\ UNCHANGED <<pc, cur, backlog, templates, handleVars, renderVars, loadVars, cliVars>>

\* a client closes its end
PeerClose(c) ==
    /\ conns[c].st \in {"queued", "accepted"}
    /\ conns[c].peer = "open"
    /\ conns' = [conns EXCEPT ![c].peer = "fin"]
    /\ UNCHANGED <<pc, cur, backlog, templates, handleVars, renderVars, loadVars, cliVars>>

\* a client aborts the connection (the server's socket gets a reset)
PeerReset(c) ==
    /\ conns[c].st \in {"queued", "accepted"}
    /\ conns[c].peer = "open"
    /\ conns' = [conns EXCEPT ![c].peer = "rst"]
    /\ UNCHANGED <<pc, cur, backlog, templates, handleVars, renderVars, loadVars, cliVars>>

\* mutant: the next connection is accepted while one is still being read
Accept_concurrent ==
    /\ pc \in {"accept", "read"}
    /\ backlog # << >>
    /\ cur' = Head(backlog)
    /\ backlog' = Tail(backlog)
    /\ conns' = [conns EXCEPT ![Head(backlog)].st = "accepted"]
    /\ pc' = "read"
    /\ UNCHANGED <<templates, handleVars, renderVars, loadVars, cliVars>>

\* conn, addr = s.accept()
Accept ==
    /\ pc = "accept"
    /\ backlog # << >>
    /\ cur' = Head(backlog)
    /\ backlog' = Tail(backlog)
    /\ conns' = [conns EXCEPT ![Head(backlog)].st = "accepted"]
    /\ pc' = "read"
    /\ UNCHANGED <<templates, handleVars, renderVars, loadVars, cliVars>>

\* what the rest of the loop body does to the connection: readline returns
\* the line, or b"" at end of stream, or raises on a reset stream; write
\* raises on a reset connection.
Served(cn, t) ==
    LET o == respond(cn.line, t) IN
    IF cn.line = NoLine
    THEN IF cn.peer = "rst"
         THEN [cn EXCEPT !.st = "closed", !.nread = @ + 1, !.exc = "ConnectionResetError"]
         ELSE [cn EXCEPT !.st = "closed", !.nread = @ + 1]
    ELSE IF o.resp.exc # ""
    THEN [cn EXCEPT !.st = "closed", !.nread = @ + 1, !.routed = @ + 1, !.exc = o.resp.exc]
    ELSE IF cn.peer = "rst"
    THEN [cn EXCEPT !.st = "closed", !.nread = @ + 1,
                    !.routed = @ + (IF o.routed THEN 1 ELSE 0), !.exc = "ConnectionResetError"]
    ELSE [cn EXCEPT !.st = "closed", !.nread = @ + 1,
                    !.routed = @ + (IF o.routed THEN 1 ELSE 0), !.out = Append(@, o.resp)]

\* mutant: the rendered body is stored in the table
Serve_writes_back ==
    /\ pc = "read"
    /\ conns[cur].line # NoLine \/ conns[cur].peer # "open"
    /\ conns' = [conns EXCEPT ![cur] = Served(conns[cur], templates)]
    /\ pc' = IF conns'[cur].exc # "" THEN "crashed" ELSE "accept"
    /\ cur' = 0
    /\ LET r == respond(conns[cur].line, templates).resp IN
          templates' = IF conns[cur].line # NoLine /\ r.exc = "" /\ r.type = RENDER_TEMPLATE
                       THEN [templates EXCEPT !.val[r.title.s] = r.body]
                       ELSE templates
    /\ UNCHANGED <<backlog, handleVars, renderVars, loadVars, cliVars>>

\* line = conn_file.readline() and everything after it, to the end of the
\* `with conn` block: readline blocks until a line or the end of the stream.
Serve ==
    /\ pc = "read"
    /\ conns[cur].line # NoLine \/ conns[cur].peer # "open"
    /\ conns' = [conns EXCEPT ![cur] = Served(conns[cur], templates)]
    /\ pc' = IF conns'[cur].exc # "" THEN "crashed" ELSE "accept"
    /\ cur' = 0
    /\ UNCHANGED <<backlog, templates, handleVars, renderVars, loadVars, cliVars>>

\* the source of the table DemoStore
DemoSource == TextSource(<<"a", "b", "\n", "S", "e", "e", " ", "y", "o", "u", " ", "{", "D", "A", "Y", "}", " ", "a", "t", " ", "{", "T", "I", "M", "E", "}", "\n", "-", "-", "-", "\n", "B", "\n", "{", "F", "O", "O", "}", "{", "D", "A", "T", "E", "}", "\n">>)

StartSources == {MissingSource, UnreadableSource, TextSource(Empty), DemoSource}

\* mutant: a load that raised is taken as an empty table and the server starts
Load_ignores_error ==
    /\ pc = "start"
    /\ loads' = loads + 1
    /\ pc' = "bind"
    /\ templates' = load_templates(source).table
    /\ UNCHANGED <<cur, backlog, conns, source, loaded, viewBlocks, handleVars, renderVars, cliVars>>

\* templates = load_templates(TEMPLATES_FILE): an exception ends the process
Load ==
    /\ pc = "start"
    /\ loads' = loads + 1
    /\ LET r == load_templates(source) IN
          IF r.exc # ""
          THEN pc' = "failed" /\ UNCHANGED templates
          ELSE pc' = "bind" /\ templates' = r.table
    /\ UNCHANGED <<cur, backlog, conns, source, loaded, viewBlocks, handleVars, renderVars, cliVars>>

\* s.bind((HOST, PORT)); s.listen()
Bind ==
    /\ pc = "bind"
    /\ pc' = "accept"
    /\ UNCHANGED <<cur, backlog, conns, templates, loadVars, handleVars, renderVars, cliVars>>


(***************************************************************************)
(* client.py: parse_kv_fields, send_request and main, with the JSON text   *)
(* that json.dumps writes and json.loads reads on both ends of the wire.   *)
(* cli is the client process:                                              *)
(*   pc       "off", "args" (before main), "connect", "send", "read",      *)
(*            "done", "raised" (an exception left main)                     *)
(*   cmd, title, pairs   the parsed command line                           *)
(*   fields   the dict parse_kv_fields returned                            *)
(*   connects calls of create_connection, sent the payloads of sendall     *)
(*   result   what send_request returned                                   *)
(* The client's connection is slot CliConn of conns.                       *)
(***************************************************************************)
CliConn == 1

\* sep in s
Contains(s, sep) == \E i \in 1..Len(s) : StartsWith(SubSeq(s, i, Len(s)), sep)

\* s.split(sep, maxsplit)
RECURSIVE SplitMaxFrom(_, _, _, _)
SplitMaxFrom(s, sep, maxsplit, piece) ==
    IF maxsplit = 0 THEN <<piece \o s>>
    ELSE IF s = << >> THEN <<piece>>
    ELSE IF StartsWith(s, sep)
         THEN <<piece>> \o SplitMaxFrom(SubSeq(s, Len(sep) + 1, Len(s)), sep, maxsplit - 1, << >>)
         ELSE SplitMaxFrom(Tail(s), sep, maxsplit, Append(piece, Head(s)))

SplitMax(s, sep, maxsplit) == SplitMaxFrom(s, sep, maxsplit, << >>)

LowerCase == <<"a", "b", "c", "d", "e", "f", "g", "h", "i", "j", "k", "l", "m", "n", "o", "p", "q", "r", "s", "t", "u", "v", "w", "x", "y", "z">>
UpperCase == <<"A", "B", "C", "D", "E", "F", "G", "H", "I", "J", "K", "L", "M", "N", "O", "P", "Q", "R", "S", "T", "U", "V", "W", "X", "Y", "Z">>

\* s.upper() for ASCII text
Upper(s) ==
    [i \in DOMAIN s |->
        IF \E j \in DOMAIN LowerCase : LowerCase[j] = s[i]
        THEN UpperCase[CHOOSE j \in DOMAIN LowerCase : LowerCase[j] = s[i]]
        ELSE s[i]]

\* mutant: a pair without "=" is skipped
RECURSIVE parse_kv_fields_skips_bad(_, _, _)
parse_kv_fields_skips_bad(pairs, i, f) ==
    IF i > Len(pairs) THEN [exc |-> "", fields |-> f]
    ELSE IF ~Contains(pairs[i], <<"=">>)
    THEN parse_kv_fields_skips_bad(pairs, i + 1, f)
    ELSE LET kv == SplitMax(pairs[i], <<"=">>, 1) IN
         parse_kv_fields_skips_bad(pairs, i + 1, DictSet(f, Upper(Strip(kv[1])), Strip(kv[2])))

\* parse_kv_fields, from pair i on, with the dict built so far
RECURSIVE parse_kv_fields(_, _, _)
parse_kv_fields(pairs, i, f) ==
    IF i > Len(pairs) THEN [exc |-> "", fields |-> f]
    ELSE IF ~Contains(pairs[i], <<"=">>)
    THEN [exc |-> "ValueError", fields |-> EmptyTable]
    ELSE LET kv == SplitMax(pairs[i], <<"=">>, 1) IN
         parse_kv_fields(pairs, i + 1, DictSet(f, Upper(Strip(kv[1])), Strip(kv[2])))

\* the request dicts main builds
CliReq(type, hasTitle, title, hasFields, f) ==
    [type |-> type, hasTitle |-> hasTitle, title |-> title, hasFields |-> hasFields, fields |-> f]

NoCliReq == CliReq(Empty, FALSE, Empty, FALSE, EmptyTable)

\* json.dumps of one character of a string
EscapeChar(c) ==
    IF c = "\"" THEN <<"\\", "\"">>
    ELSE IF c = "\\" THEN <<"\\", "\\">>
    ELSE IF c = "\n" THEN <<"\\", "n">>
    ELSE <<c>>

RECURSIVE Escape(_)
Escape(s) == IF s = << >> THEN << >> ELSE EscapeChar(Head(s)) \o Escape(Tail(s))

\* mutant: the characters are written as they are
JsonString_raw(s) == <<"\"">> \o s \o <<"\"">>

\* json.dumps of a string
JsonString(s) == <<"\"">> \o Escape(s) \o <<"\"">>

\* json.loads of a string token: the text between the quotes with the
\* escapes undone; ok is FALSE when the token is not a JSON string.
RECURSIVE Unescape(_)
Unescape(s) ==
    IF s = << >> THEN [ok |-> TRUE, s |-> << >>]
    ELSE IF Head(s) \in {"\"", "\n"} THEN [ok |-> FALSE, s |-> << >>]
    ELSE IF Head(s) = "\\"
    THEN IF Len(s) < 2 \/ s[2] \notin {"\"", "\\", "n"}
         THEN [ok |-> FALSE, s |-> << >>]
         ELSE LET rest == Unescape(SubSeq(s, 3, Len(s))) IN
              [ok |-> rest.ok, s |-> <<IF s[2] = "n" THEN "\n" ELSE s[2]>> \o rest.s]
    ELSE LET rest == Unescape(Tail(s)) IN [ok |-> rest.ok, s |-> <<Head(s)>> \o rest.s]

JsonStringValue(token) ==
    IF Len(token) < 2 \/ token[1] # "\"" \/ token[Len(token)] # "\""
    THEN [ok |-> FALSE, s |-> << >>]
    ELSE Unescape(SubSeq(token, 2, Len(token) - 1))

\* the string tokens json.dumps writes for the dict, in order
FieldTokens(f) ==
    [i \in DOMAIN f.keys |-> [key |-> JsonString(f.keys[i]), value |-> JsonString(f.val[f.keys[i]])]]

\* json.dumps(fields)
DumpsFields(f) ==
    LET toks == FieldTokens(f) IN
    <<"{">> \o Join([i \in DOMAIN toks |-> toks[i].key \o <<":", " ">> \o toks[i].value], <<",", " ">>) \o <<"}">>

\* json.dumps(req)
DumpsReq(r) ==
    <<"{", "\"", "t", "y", "p", "e", "\"", ":", " ">> \o JsonString(r.type)
    \o (IF r.hasTitle THEN <<",", " ", "\"", "t", "i", "t", "l", "e", "\"", ":", " ">> \o JsonString(r.title) ELSE << >>)
    \o (IF r.hasFields THEN <<",", " ", "\"", "f", "i", "e", "l", "d", "s", "\"", ":", " ">> \o DumpsFields(r.fields) ELSE << >>)
    \o <<"}">>

\* payload = (json.dumps(req) + "\n").encode("utf-8")
Payload(r) == DumpsReq(r) \o <<"\n">>

\* readline(): the bytes up to and including the first line feed
ReadLine(bytes) ==
    IF \E i \in DOMAIN bytes : bytes[i] = "\n"
    THEN SubSeq(bytes, 1, CHOOSE i \in DOMAIN bytes :
                              bytes[i] = "\n" /\ \A j \in 1..(i - 1) : bytes[j] # "\n")
    ELSE bytes

\* json.loads of the members of the fields object, in order
RECURSIVE LoadsFields(_, _, _)
LoadsFields(toks, i, f) ==
    IF i > Len(toks) THEN f
    ELSE LoadsFields(toks, i + 1,
                     DictSet(f, JsonStringValue(toks[i].key).s, JsonStringValue(toks[i].value).s))

\* the fields dict as the members handle_request and render_template look
\* at: DAY, DATE, TIME, and FOO for a key that is none of these
WireFields(f) ==
    LET known == {KeyText("DAY"), KeyText("DATE"), KeyText("TIME")}
        others == {i \in DOMAIN f.keys : f.keys[i] \notin known}
    IN Dict([key \in FieldKeys |->
               IF key = "FOO"
               THEN IF others = {} THEN Absent
                    ELSE Str(f.val[f.keys[CHOOSE i \in others : \A j \in others : i <= j]])
               ELSE IF KeyText(key) \in DOMAIN f.val THEN Str(f.val[KeyText(key)]) ELSE Absent])

\* req = json.loads(line.decode("utf-8").strip()) for the line the server
\* reads from the bytes the client wrote for r
LineOf(r) ==
    LET bytes == Payload(r)
        toks == FieldTokens(r.fields)
        type == JsonStringValue(JsonString(r.type))
        title == JsonStringValue(JsonString(r.title))
    IN IF ReadLine(bytes) # bytes THEN BadJsonLine
       ELSE IF ~type.ok \/ (r.hasTitle /\ ~title.ok) THEN BadJsonLine
       ELSE IF r.hasFields /\ \E i \in DOMAIN toks :
                   ~JsonStringValue(toks[i].key).ok \/ ~JsonStringValue(toks[i].value).ok
       THEN BadJsonLine
       ELSE JsonLine(Request("obj", Str(type.s),
                             IF r.hasTitle THEN Str(title.s) ELSE Absent,
                             IF r.hasFields THEN WireFields(LoadsFields(toks, 1, EmptyTable))
                             ELSE NotDict(Absent)))

\* json.dumps(resp) for the dicts handle_request and run_server build
DumpsResp(r) ==
    <<"{", "\"", "o", "k", "\"", ":", " ">> \o (IF r.ok THEN <<"t", "r", "u", "e">> ELSE <<"f", "a", "l", "s", "e">>)
    \o (IF "type" \in r.has THEN <<",", " ", "\"", "t", "y", "p", "e", "\"", ":", " ">> \o JsonString(r.type) ELSE << >>)
    \o (IF "buttons" \in r.has
        THEN <<",", " ", "\"", "b", "u", "t", "t", "o", "n", "s", "\"", ":", " ", "[">> \o Join([i \in DOMAIN r.buttons |-> JsonString(r.buttons[i])], <<",", " ">>) \o <<"]">>
        ELSE << >>)
    \o (IF "title" \in r.has THEN <<",", " ", "\"", "t", "i", "t", "l", "e", "\"", ":", " ">> \o JsonString(r.title.s) ELSE << >>)
    \o (IF "body" \in r.has THEN <<",", " ", "\"", "b", "o", "d", "y", "\"", ":", " ">> \o JsonString(r.body) ELSE << >>)
    \o (IF "error" \in r.has THEN <<",", " ", "\"", "e", "r", "r", "o", "r", "\"", ":", " ">> \o JsonString(r.error) ELSE << >>)
    \o <<"}">>

\* conn_file.write((json.dumps(resp) + "\n").encode("utf-8"))
ResponseBytes(r) == DumpsResp(r) \o <<"\n">>

MsgNoResponse == <<"N", "o", " ", "r", "e", "s", "p", "o", "n", "s", "e", " ", "f", "r", "o", "m", " ", "s", "e", "r", "v", "e", "r">>

NoResult == [k |-> "none", resp |-> NoResp]
Returned(r) == [k |-> "returned", resp |-> r]
Raised(e) == [k |-> e, resp |-> NoResp]

\* json.loads(line.decode("utf-8").strip()) for the line the client reads
\* from the bytes the server wrote for r
LoadsResp(r) ==
    LET bytes == ResponseBytes(r)
        val(t) == JsonStringValue(JsonString(t))
        texts == {r.type, r.title.s, r.body, r.error} \cup {r.buttons[i] : i \in DOMAIN r.buttons}
    IN IF ReadLine(bytes) # bytes \/ \E t \in texts : ~val(t).ok
       THEN Raised("JSONDecodeError")
       ELSE Returned([r EXCEPT !.type = val(@).s, !.body = val(@).s, !.error = val(@).s,
                               !.title = IF "title" \in r.has THEN Str(val(@.s).s) ELSE @,
                               !.buttons = [i \in DOMAIN @ |-> val(@[i]).s]])

NoCli ==
    [pc |-> "off", cmd |-> "", title |-> Empty, pairs |-> << >>, fields |-> EmptyTable,
     req |-> NoCliReq, exc |-> "", connects |-> 0, sent |-> << >>, result |-> NoResult]

CliArgs(cmd, title, pairs) == [NoCli EXCEPT !.pc = "args", !.cmd = cmd, !.title = title, !.pairs = pairs]

\* main, from the parsed arguments to the request dict
cli_main ==
    /\ cli.pc = "args"
    /\ LET p == parse_kv_fields(cli.pairs, 1, EmptyTable) IN
          cli' = IF cli.cmd = "list"
                 THEN [cli EXCEPT !.pc = "connect",
                                  !.req = CliReq(LIST_BUTTONS, FALSE, Empty, FALSE, EmptyTable)]
                 ELSE IF cli.cmd = "get"
                 THEN [cli EXCEPT !.pc = "connect",
                                  !.req = CliReq(GET_TEMPLATE, TRUE, cli.title, FALSE, EmptyTable)]
                 ELSE IF p.exc # ""
                 THEN [cli EXCEPT !.pc = "raised", !.exc = p.exc]
                 ELSE [cli EXCEPT !.pc = "connect", !.fields = p.fields,
                                  !.req = CliReq(RENDER_TEMPLATE, TRUE, cli.title, TRUE, p.fields)]
    /\ UNCHANGED <<templates, serverVars, handleVars, renderVars, loadVars>>

\* socket.create_connection((host, port), timeout=5)
cli_connect ==
    /\ cli.pc = "connect"
    /\ IF pc \in {"accept", "read"} /\ conns[CliConn].st = "new"
       THEN /\ conns' = [conns EXCEPT ![CliConn].st = "queued"]
            /\ backlog' = Append(backlog, CliConn)
            /\ cli' = [cli EXCEPT !.pc = "send", !.connects = @ + 1]
       ELSE /\ cli' = [cli EXCEPT !.pc = "raised", !.exc = "ConnectionRefusedError", !.connects = @ + 1]
            /\ UNCHANGED <<conns, backlog>>
    /\ UNCHANGED <<pc, cur, templates, handleVars, renderVars, loadVars>>

\* sock.sendall(payload)
cli_sendall ==
    /\ cli.pc = "send"
    /\ cli' = [cli EXCEPT !.pc = "read", !.sent = Append(@, Payload(cli.req))]
    /\ conns' = [conns EXCEPT ![CliConn].line = LineOf(cli.req)]
    /\ UNCHANGED <<pc, cur, backlog, templates, handleVars, renderVars, loadVars>>

\* line = sock_file.readline() and the rest of send_request: the read
\* returns when the server has written its line or closed the connection
cli_readline ==
    /\ cli.pc = "read"
    /\ conns[CliConn].st = "closed"
    /\ LET out == conns[CliConn].out
           r == IF out = << >> THEN Returned(ErrorResp(MsgNoResponse)) ELSE LoadsResp(out[1])
       IN cli' = IF r.k = "returned"
                 THEN [cli EXCEPT !.pc = "done", !.result = r]
                 ELSE [cli EXCEPT !.pc = "raised", !.exc = r.k]
    /\ conns' = [conns EXCEPT ![CliConn].peer = "fin"]
    /\ UNCHANGED <<pc, cur, backlog, templates, handleVars, renderVars, loadVars>>

\* command lines
MaxArgs == 2

CliTitles == {<<"a", "b">>, <<"B">>, <<"z", "z">>, <<"a", "\n", "b">>, <<"q", "\"", "\\">>}

PairTexts == {<<"D", "A", "Y", "=", "M", "O", "N">>, <<"d", "a", "y", "=", " ", "x", " ">>, <<"t", "i", "m", "e", "=", "4", "=", "5">>, <<"D", "A", "Y", "M", "O", "N">>, <<"=", "v">>, <<"F", "o", "o", "=", "1">>}

RECURSIVE PairSeqs(_)
PairSeqs(n) ==
    IF n = 0 THEN {<< >>}
    ELSE PairSeqs(n - 1) \cup {Append(p, t) : p \in {q \in PairSeqs(n - 1) : Len(q) = n - 1}, t \in PairTexts}

CommandLines ==
    {CliArgs("list", Empty, << >>)}
    \cup {CliArgs("get", t, << >>) : t \in CliTitles}
    \cup {CliArgs("render", t, p) : t \in CliTitles, p \in PairSeqs(MaxArgs)}

\* a source whose template body has two lines
TwoLineSource == TextSource(<<"a", "b", "\n", "D", "e", "a", "r", ",", "\n", "s", "e", "e", " ", "y", "o", "u", " ", "{", "D", "A", "Y", "}", "\n">>)

CliSources == {DemoSource, TwoLineSource}

(***************************************************************************)
(* Specifications                                                          *)
(***************************************************************************)
IdleServer ==
    /\ pc = "accept"
    /\ cur = 0
    /\ backlog = << >>
    /\ conns = [c \in ConnIds |-> NewConn]

IdleHandle == req = NoLine /\ resp = NoOutcome /\ called = FALSE

IdleRender == body = Empty /\ fields = EmptyDict /\ rendered = Empty /\ done = FALSE

IdleLoad ==
    /\ source = TextSource(Empty)
    /\ loads = 0
    /\ loaded = NotLoaded
    /\ viewBlocks = ViewNotLoaded

IdleCli == cli = NoCli

\* the server, from the start of run_server, and its clients
Init ==
    /\ pc = "start"
    /\ templates = EmptyTable
    /\ source \in StartSources
    /\ loads = 0
    /\ cur = 0
    /\ backlog = << >>
    /\ conns = [c \in ConnIds |-> NewConn]
    /\ loaded = NotLoaded
    /\ viewBlocks = ViewNotLoaded
    /\ IdleHandle /\ IdleRender /\ IdleCli

Next ==
    \/ Load
    \/ Bind
    \/ \E c \in ConnIds : Connect(c)
    \/ \E c \in ConnIds, l \in WireLines : Send(c, l)
    \/ \E c \in ConnIds : PeerClose(c)
    \/ \E c \in ConnIds : PeerReset(c)
    \/ Accept
    \/ Serve

Spec == Init /\ [][Next]_vars

\* one received line, from json.loads to the response, for every line and table
InitHandle ==
    /\ templates \in Stores
    /\ req \in Lines
    /\ resp = NoOutcome
    /\ called = FALSE
    /\ IdleServer /\ IdleRender /\ IdleLoad /\ IdleCli

NextHandle == call_respond

SpecHandle == InitHandle /\ [][NextHandle]_vars

\* one call of render_template, for every body and fields
InitRender ==
    /\ templates = DemoStore
    /\ body \in RenderBodies
    /\ fields \in RenderFields
    /\ rendered = Empty
    /\ done = FALSE
    /\ IdleServer /\ IdleHandle /\ IdleLoad /\ IdleCli

NextRender == call_render

SpecRender == InitRender /\ [][NextRender]_vars

\* one call of each loader, for every source
InitLoad ==
    /\ templates = EmptyTable
    /\ source \in Sources
    /\ loads = 0
    /\ loaded = NotLoaded
    /\ viewBlocks = ViewNotLoaded
    /\ IdleServer /\ IdleHandle /\ IdleRender /\ IdleCli

NextLoad == call_load_templates \/ call_load_template_blocks

SpecLoad == InitLoad /\ [][NextLoad]_vars

\* one run of the command-line client against a started, idle server
InitCli ==
    /\ cli \in CommandLines
    /\ source \in CliSources
    /\ templates = load_templates(source).table
    /\ loads = 1
    /\ loaded = NotLoaded
    /\ viewBlocks = ViewNotLoaded
    /\ IdleServer /\ IdleHandle /\ IdleRender

NextCli == cli_main \/ cli_connect \/ cli_sendall \/ cli_readline \/ Accept \/ Serve

SpecCli == InitCli /\ [][NextCli]_vars

(***************************************************************************)
(* Properties of render_template (SpecRender)                              *)
(***************************************************************************)
PlaceholderKeys == {"DAY", "DATE", "TIME"}

\* the text a placeholder stands for: the field's value, "" when absent
ValueText(f, key) == Format(DictGet(f, key, Str(Empty)))

\* Reference substitution: one scan of b from left to right, in which every
\* occurrence of a placeholder of keys is replaced by its value and every
\* other character is copied.
RECURSIVE SubstituteKeys(_, _, _)
SubstituteKeys(b, f, keys) ==
    IF b = << >> THEN << >>
    ELSE IF \E key \in keys : StartsWith(b, Placeholder(key))
    THEN LET key == CHOOSE x \in keys : StartsWith(b, Placeholder(x)) IN
         ValueText(f, key)
            \o SubstituteKeys(SubSeq(b, Len(Placeholder(key)) + 1, Len(b)), f, keys)
    ELSE <<Head(b)>> \o SubstituteKeys(Tail(b), f, keys)

Simultaneous(b, f) == SubstituteKeys(b, f, PlaceholderKeys)

Successive(b, f) ==
    SubstituteKeys(SubstituteKeys(SubstituteKeys(b, f, {"DAY"}), f, {"DATE"}), f, {"TIME"})

\* no "{" of b is followed by another "{" before a "}"
NotNested(b) ==
    \A i, j \in DOMAIN b :
        (i < j /\ b[i] = "{" /\ b[j] = "{") => \E m \in (i + 1)..(j - 1) : b[m] = "}"

\* no value of a placeholder contains a brace
BraceFree(f) ==
    \A key \in PlaceholderKeys :
        \A i \in DOMAIN ValueText(f, key) : ValueText(f, key)[i] \notin {"{", "}"}

\* C10 as stated: the result of render_template is the body in which every
\* occurrence of {DAY}, {DATE}, {TIME} is replaced by the field's value and
\* all other text, nested tokens and tokens inside values included, is unchanged.
C10_SubstitutionComplete == done => rendered = Simultaneous(body, fields)

\* C10 amended: the result is that of three successive passes, DAY then DATE
\* then TIME, each over the output of the one before; it is the body with
\* every placeholder replaced and all other text unchanged whenever no
\* placeholder value contains a brace and no "{" of the body is nested in
\* another brace group.
C10_SuccessivePasses ==
    done => /\ rendered = Successive(body, fields)
            /\ (NotNested(body) /\ BraceFree(fields)) => rendered = Simultaneous(body, fields)

C10_Witness ==
    /\ done
    /\ body = Placeholder("DAY") \o Placeholder("FOO") \o Placeholder("DAY")
    /\ fields.m["DAY"] = Str(<<"M", "O", "N">>)
    /\ rendered = <<"M", "O", "N">> \o Placeholder("FOO") \o <<"M", "O", "N">>

(***************************************************************************)
(* Properties of handle_request and of the invalid-JSON path (SpecHandle)  *)
(***************************************************************************)
\* the request is a JSON object
IsObject == req.k = "json" /\ req.req.top = "obj"

\* the response carries a success payload / an error
HasPayload(r) == "type" \in r.has /\ ("buttons" \in r.has \/ {"title", "body"} \subseteq r.has)
HasError(r) == "error" \in r.has

\* C2 as stated: for a request that is a JSON object, whatever its type,
\* title and fields members hold, handle_request raises nothing and returns
\* a response with ok, every failure being {ok: false, error: message}.
C2_NeverRaises ==
    (called /\ IsObject) =>
        /\ resp.resp.exc = ""
        /\ "ok" \in resp.resp.has
        /\ ~resp.resp.ok => resp.resp.has = {"ok", "error"}

\* C3: every response produced, by handle_request or by the invalid-JSON
\* path, has ok and exactly one of a success payload and an error; ok is
\* true exactly when the payload is present.
C3_PayloadXorError ==
    (called /\ resp.resp.exc = "") =>
        /\ "ok" \in resp.resp.has
        /\ resp.resp.ok \in BOOLEAN
        /\ HasPayload(resp.resp) # HasError(resp.resp)
        /\ HasError(resp.resp) => resp.resp.has = {"ok", "error"}
        /\ HasPayload(resp.resp) => resp.resp.has \in {{"ok", "type", "buttons"}, {"ok", "type", "title", "body"}}
        /\ resp.resp.ok <=> HasPayload(resp.resp)

C3_Witness ==
    /\ called
    /\ req.req.type = Str(RENDER_TEMPLATE)
    /\ resp.resp.ok
    /\ resp.resp.has = {"ok", "type", "title", "body"}

KnownTypes == {Str(LIST_BUTTONS), Str(GET_TEMPLATE), Str(RENDER_TEMPLATE)}

\* C6 as stated: without a type member the error is "Missing request field:
\* type"; with a type member that is none of the three types, the empty
\* string, 0, false and null included, it is "Unknown request type: <type>".
C6_TypeValidation ==
    (called /\ IsObject) =>
        /\ req.req.type = Absent => resp.resp = ErrorResp(MsgMissingType)
        /\ (req.req.type # Absent /\ req.req.type \notin KnownTypes)
              => resp.resp = ErrorResp(MsgUnknownType \o Format(req.req.type))

\* the JSON values Python takes as false
FalsyValues == {Null, Bool(FALSE), Num(0), Str(Empty), List(0), Obj(0)}

\* C6 amended: without a type member, or with one that is null, false, 0,
\* the empty string, an empty list or an empty object, the error is "Missing
\* request field: type"; with any other type value that is none of the three
\* types it is "Unknown request type: <type>"; no such request is served as
\* one of the three operations.
C6_FalsyTypeIsMissing ==
    (called /\ IsObject) =>
        /\ (req.req.type = Absent \/ req.req.type \in FalsyValues)
              => resp.resp = ErrorResp(MsgMissingType)
        /\ (req.req.type # Absent /\ req.req.type \notin FalsyValues /\ req.req.type \notin KnownTypes)
              => resp.resp = ErrorResp(MsgUnknownType \o Format(req.req.type))
        /\ req.req.type \notin KnownTypes => ~HasPayload(resp.resp)

C6_Witness ==
    /\ called
    /\ IsObject
    /\ req.req.type = Num(0)
    /\ resp.resp = ErrorResp(MsgMissingType)

\* the request is a RENDER_TEMPLATE for a title of the table
RendersKnownTitle ==
    /\ IsObject
    /\ req.req.type = Str(RENDER_TEMPLATE)
    /\ HasKey(templates, req.req.title)

\* C7 as stated: for RENDER_TEMPLATE with a title of the table, fields is an
\* empty mapping exactly when absent or null, and every fields value that is
\* present and not a mapping (a list, a string, a number, a boolean, empty
\* or zero or false included) gives "fields must be an object/dict" and no body.
C7_FieldsValidation ==
    (called /\ RendersKnownTitle) =>
        /\ req.req.fields.k \in {"absent", "null"}
              => resp.resp = BodyResp(RENDER_TEMPLATE, req.req.title,
                                      Simultaneous(templates.val[req.req.title.s], EmptyDict))
        /\ req.req.fields.k \notin {"absent", "null", "obj"}
              => resp.resp = ErrorResp(MsgFieldsNotDict)

\* the title is absent or a JSON scalar (what a dict lookup can hash)
ScalarTitle == req.req.title.k \in {"absent", "null", "bool", "num", "str"}

\* C8: GET_TEMPLATE answers "Unknown title: <title>" when the title (the
\* empty string when absent) is not a key of the table, and otherwise a
\* success with that title and the stored body, placeholders unchanged.
C8_GetTemplateVerbatim ==
    (called /\ IsObject /\ req.req.type = Str(GET_TEMPLATE) /\ ScalarTitle) =>
        LET title == IF req.req.title = Absent THEN Str(Empty) ELSE req.req.title IN
        IF title.k = "str" /\ title.s \in Range(templates.keys)
        THEN /\ resp.resp.ok
             /\ resp.resp.has = {"ok", "type", "title", "body"}
             /\ resp.resp.type = GET_TEMPLATE
             /\ resp.resp.title = title
             /\ resp.resp.body = templates.val[title.s]
        ELSE resp.resp = ErrorResp(MsgUnknownTitle \o Format(title))

C8_Witness ==
    /\ called
    /\ req.req.type = Str(GET_TEMPLATE)
    /\ req.req.title = Str(<<"a", "b">>)
    /\ HasKey(templates, req.req.title)
    /\ \E i \in DOMAIN templates.val[<<"a", "b">>] : templates.val[<<"a", "b">>][i] = "{"
    /\ resp.resp.body = templates.val[<<"a", "b">>]

\* C9: LIST_BUTTONS answers a success whose buttons are exactly the keys of
\* the table, each once, in ascending order, the same for every table with
\* these keys whatever its block order.
C9_ButtonsSorted ==
    (called /\ IsObject /\ req.req.type = Str(LIST_BUTTONS)) =>
        LET bs == resp.resp.buttons IN
        /\ resp.resp.ok
        /\ resp.resp.has = {"ok", "type", "buttons"}
        /\ Range(bs) = Range(templates.keys)
        /\ Len(bs) = Cardinality(Range(templates.keys))
        /\ \A i, j \in DOMAIN bs : i < j => StrLess(bs[i], bs[j])
        /\ \A t \in Stores :
              Range(t.keys) = Range(templates.keys) => handle_request(req.req, t).buttons = bs

C9_Witness ==
    /\ called
    /\ req.req.type = Str(LIST_BUTTONS)
    /\ templates.keys = << <<"a", "b">>, <<"B">> >>
    /\ resp.resp.buttons = << <<"B">>, <<"a", "b">> >>

(***************************************************************************)
(* Properties of the accept loop (Spec)                                    *)
(***************************************************************************)
\* C1 as stated: whatever the clients sent, and even when a client is gone
\* before the response is written, run_server is still in its accept loop.
C1_ServingLoopSurvives == pc # "crashed"

\* C4 as stated: a connection the server is done with was read once, got
\* exactly one response line if the client had delivered a line and none,
\* without a call of the router, if the peer closed before sending, and the
\* server went back to accepting.
C4_OneLineInOneLineOut ==
    \A c \in ConnIds :
        conns[c].st = "closed" =>
            /\ conns[c].nread = 1
            /\ conns[c].line # NoLine => Len(conns[c].out) = 1
            /\ conns[c].line = NoLine => (conns[c].out = << >> /\ conns[c].routed = 0)
            /\ conns[c].exc = ""

\* C5 as stated: a line that cannot be decoded or parsed is answered with
\* exactly one {"ok": false, "error": "Invalid JSON: <details>"} line, the
\* router is not called, and the connection completes normally.
C5_InvalidJsonAnswered ==
    \A c \in ConnIds :
        (conns[c].st = "closed" /\ conns[c].line.k \in {"badutf8", "badjson"}) =>
            /\ conns[c].out = <<ErrorResp(MsgInvalidJSON \o ExcText(conns[c].line))>>
            /\ conns[c].routed = 0
            /\ conns[c].exc = ""

(***************************************************************************)
(* Properties of the loaders (SpecLoad)                                    *)
(***************************************************************************)
\* C13 as stated: for a source file that does not exist, load_templates and
\* load_template_blocks return an empty result and raise nothing.
C13_MissingSourceIsEmpty ==
    source = MissingSource =>
        /\ loaded # NotLoaded => loaded = Loaded(EmptyTable)
        /\ viewBlocks # ViewNotLoaded => viewBlocks = ViewLoaded(<< >>)

\* every line of the text is blank or, trimmed, the separator
OnlySeparators(raw) ==
    \A i \in DOMAIN Split(raw, <<"\n">>) : Strip(Split(raw, <<"\n">>)[i]) \in {Empty, Separator}

\* C14: for a source that is empty, only whitespace, or only --- separators
\* and blank lines, load_templates returns the empty mapping and raises
\* nothing; no block with a blank first line contributes a template.
C14_BlankSourceIsEmpty ==
    (loaded # NotLoaded /\ source.k = "text") =>
        /\ OnlySeparators(source.text) => loaded = Loaded(EmptyTable)
        /\ Empty \notin DOMAIN loaded.table.val

C14_Witness ==
    /\ source = TextSource(<<"-", "-", "-", "\n", " ", "\n", "-", "-", "-", "\n">>)
    /\ loaded = Loaded(EmptyTable)

\* the blocks of the source that carry a template, in source order
RECURSIVE TitledBlocks(_)
TitledBlocks(blocks) ==
    IF blocks = << >> THEN << >>
    ELSE IF Head(blocks) = << >> \/ BlockTitle(Head(blocks)) = << >> THEN TitledBlocks(Tail(blocks))
    ELSE <<Head(blocks)>> \o TitledBlocks(Tail(blocks))

\* C15: when several blocks have the same trimmed title, the table has one
\* entry for it, with the body of the last such block; LIST_BUTTONS lists the
\* title once and GET_TEMPLATE returns that body.
C15_LastBlockWins ==
    (loaded # NotLoaded /\ source.k = "text") =>
        LET bs == TitledBlocks(Blocks(source.text))
            t == loaded.table
            buttons == handle_request(ListRequest, t).buttons
        IN  \A i \in DOMAIN bs :
                LET title == BlockTitle(bs[i]) IN
                (\A j \in DOMAIN bs : j > i => BlockTitle(bs[j]) # title) =>
                    /\ Cardinality({n \in DOMAIN t.keys : t.keys[n] = title}) = 1
                    /\ t.val[title] = BlockBody(bs[i])
                    /\ Cardinality({n \in DOMAIN buttons : buttons[n] = title}) = 1
                    /\ handle_request(Request("obj", Str(GET_TEMPLATE), Str(title), NotDict(Absent)), t).body
                          = BlockBody(bs[i])

C15_Witness ==
    /\ source = TextSource(<<"a", "\n", "-", "-", "-", "\n", "a", "\n", " ", "B", " ">>)
    /\ loaded.exc = ""
    /\ loaded.table.keys = <<<<"a">>>>
    /\ loaded.table.val[<<"a">>] = <<" ", "B">>

\* the text is one block in the sense of the file format: no line is the
\* separator, and every line is non-blank and has no surrounding whitespace
PlainBlock(lines) ==
    /\ lines # << >>
    /\ \A i \in DOMAIN lines : lines[i] # << >> /\ lines[i] # Separator /\ Strip(lines[i]) = lines[i]

\* C16 as stated: only a line that is exactly --- separates blocks, so a
\* block of a title line and body lines none of which is exactly --- loads as
\* that title with those body lines joined by newlines.
C16_SeparatorIsWholeLine ==
    (loaded # NotLoaded /\ source.k = "text" /\ PlainBlock(SplitLines(source.text))) =>
        LET lines == SplitLines(source.text) IN
        /\ loaded.exc = ""
        /\ lines[1] \in DOMAIN loaded.table.val
        /\ loaded.table.val[lines[1]] = Join(Tail(lines), <<"\n">>)

\* C20: every key of the loaded table is a non-empty string without leading
\* or trailing whitespace, so GET_TEMPLATE and RENDER_TEMPLATE with an absent
\* or empty title are answered "Unknown title: " and never with a body.
C20_KeysNonEmptyTrimmed ==
    (loaded # NotLoaded /\ loaded.exc = "") =>
        /\ \A title \in DOMAIN loaded.table.val :
              title # << >> /\ ~IsSpace(title[1]) /\ ~IsSpace(title[Len(title)])
        /\ Range(loaded.table.keys) = DOMAIN loaded.table.val
        /\ \A ty \in {Str(GET_TEMPLATE), Str(RENDER_TEMPLATE)}, ti \in {Absent, Str(Empty)} :
              handle_request(Request("obj", ty, ti, NotDict(Absent)), loaded.table)
                 = ErrorResp(MsgUnknownTitle)

C20_Witness ==
    /\ source = TextSource(<<" ", "B", " ", "\n", "a", "\n">>)
    /\ loaded.exc = ""
    /\ loaded.table.keys = <<<<"B">>>>
    /\ loaded.table.val[<<"B">>] = <<"a">>

(***************************************************************************)
(* Properties of startup and of the table in the loop (Spec)               *)
(***************************************************************************)
Started == pc \in {"bind", "accept", "read", "crashed"}

\* C11: once loaded, the table held by the server is the table of the single
\* load at startup, whatever requests were served or rejected since; no step
\* after the load changes it or reads the source again.
C11_TableReadOnly ==
    /\ [](Started => (loads = 1 /\ templates = load_templates(source).table))
    /\ [][pc # "start" => (templates' = templates /\ loads' = loads /\ source' = source)]_vars

C11_Witness ==
    /\ \E c \in ConnIds :
          /\ conns[c].st = "closed"
          /\ conns[c].line = JsonLine(RenderRequest)
          /\ Len(conns[c].out) = 1
          /\ conns[c].out[1].ok
          /\ conns[c].out[1].body # templates.val[<<"a", "b">>]
    /\ templates = DemoStore
    /\ loads = 1

\* C12: the source is loaded exactly once before bind and listen; when it
\* cannot be read the process fails at startup and never binds, listens or
\* accepts, so no connection is ever served without a completed load.
C12_LoadBeforeListen ==
    /\ pc = "start" => loads = 0
    /\ pc # "start" => loads = 1
    /\ Started => source.k = "text"
    /\ source.k # "text" => pc \in {"start", "failed"}
    /\ ~Started => (backlog = << >> /\ \A c \in ConnIds : conns[c] = NewConn)

C12_Witness ==
    /\ pc = "failed"
    /\ source = UnreadableSource
    /\ loads = 1
    /\ \A c \in ConnIds : conns[c] = NewConn

(***************************************************************************)
(* Properties of the accept loop: one connection at a time (Spec)          *)
(***************************************************************************)
Open == {c \in ConnIds : conns[c].st = "accepted"}

\* the accepted client has sent nothing and has not closed
Stalled(c) == conns[c].st = "accepted" /\ conns[c].line = NoLine /\ conns[c].peer = "open"

\* C18: at most one accepted connection is open; while it is open no other
\* connection is accepted or answered, so responses come in accept order;
\* while its client neither sends nor closes the server takes no step at all.
C18_OneAtATime ==
    /\ [](/\ Cardinality(Open) <= 1
          /\ \A c \in Open : pc = "read" /\ cur = c
          /\ \A c \in ConnIds : Stalled(c) => ~ENABLED (Accept \/ Serve))
    /\ [][\A c \in ConnIds :
            (conns[c].st = "accepted" /\ conns'[c].st = "accepted") =>
                \A d \in ConnIds \ {c} :
                    /\ conns'[d].out = conns[d].out
                    /\ conns'[d].st \notin {"accepted", "closed"} \/ conns'[d].st = conns[d].st]_vars

C18_Witness ==
    /\ Stalled(1)
    /\ conns[2].st = "queued"
    /\ conns[2].line = JsonLine(ListRequest)
    /\ conns[2].out = << >>

(***************************************************************************)
(* Properties of the command-line client (SpecCli)                         *)
(***************************************************************************)
Malformed(pair) == \A i \in DOMAIN pair : pair[i] # "="

FirstEq(pair) == CHOOSE i \in DOMAIN pair : pair[i] = "=" /\ \A j \in 1..(i - 1) : pair[j] # "="

KeyOf(pair) == Upper(Strip(SubSeq(pair, 1, FirstEq(pair) - 1)))

ValueOf(pair) == Strip(SubSeq(pair, FirstEq(pair) + 1, Len(pair)))

\* the last pair with the key of pair i
LastOf(pairs, i) ==
    CHOOSE j \in DOMAIN pairs :
        /\ KeyOf(pairs[j]) = KeyOf(pairs[i])
        /\ \A k \in DOMAIN pairs : KeyOf(pairs[k]) = KeyOf(pairs[i]) => k <= j

\* the dict is exactly the pairs: one member per key, with the value of the
\* last pair that has the key
IsFieldsOf(f, pairs) ==
    /\ DOMAIN f.val = {KeyOf(pairs[i]) : i \in DOMAIN pairs}
    /\ Range(f.keys) = DOMAIN f.val
    /\ Len(f.keys) = Cardinality(DOMAIN f.val)
    /\ \A i \in DOMAIN pairs : f.val[KeyOf(pairs[i])] = ValueOf(pairs[LastOf(pairs, i)])

Untouched == conns = [c \in ConnIds |-> NewConn] /\ backlog = << >>

\* C17: the render subcommand with a KEY=VALUE argument that has no "=",
\* at any position, raises ValueError before any connection is opened and
\* before any byte is sent; with well-formed arguments each is split at its
\* first "=", the key trimmed and upper-cased, the value trimmed, and
\* exactly one RENDER_TEMPLATE request with these fields is sent.
C17_RenderFailsFast ==
    cli.cmd = "render" =>
        IF \E i \in DOMAIN cli.pairs : Malformed(cli.pairs[i])
        THEN /\ cli.pc \in {"args", "raised"}
             /\ cli.pc = "raised" => cli.exc = "ValueError"
             /\ cli.connects = 0 /\ cli.sent = << >> /\ Untouched
        ELSE /\ cli.exc # "ValueError"
             /\ cli.pc # "args" => IsFieldsOf(cli.fields, cli.pairs)
             /\ cli.connects <= 1 /\ Len(cli.sent) <= 1
             /\ cli.pc \in {"read", "done"} =>
                   /\ cli.connects = 1
                   /\ cli.sent = <<Payload(CliReq(RENDER_TEMPLATE, TRUE, cli.title, TRUE, cli.fields))>>
                   /\ conns[CliConn].line.k = "json"
                   /\ conns[CliConn].line.req.type = Str(RENDER_TEMPLATE)
                   /\ conns[CliConn].line.req.title = Str(cli.title)
                   /\ conns[CliConn].line.req.fields = WireFields(cli.fields)

\* C17 witnesses: the malformed argument comes after a well-formed one and
\* nothing was connected or sent; and a well-formed command line was sent.
C17_Witness ==
    /\ cli.pc = "raised" /\ cli.exc = "ValueError"
    /\ cli.pairs = <<<<"D", "A", "Y", "=", "M", "O", "N">>, <<"D", "A", "Y", "M", "O", "N">>>>
    /\ cli.connects = 0 /\ Untouched

C17_WitnessSent ==
    /\ cli.pc = "done" /\ cli.cmd = "render" /\ cli.title = <<"a", "\n", "b">>
    /\ cli.pairs = <<<<"d", "a", "y", "=", " ", "x", " ">>, <<"t", "i", "m", "e", "=", "4", "=", "5">>>>
    /\ cli.fields.keys = <<<<"D", "A", "Y">>, <<"T", "I", "M", "E">>>>
    /\ cli.fields.val[<<"D", "A", "Y">>] = <<"x">> /\ cli.fields.val[<<"T", "I", "M", "E">>] = <<"4", "=", "5">>
    /\ cli.sent = <<<<"{", "\"", "t", "y", "p", "e", "\"", ":", " ", "\"", "R", "E", "N", "D", "E", "R", "_", "T", "E", "M", "P", "L", "A", "T", "E", "\"", ",", " ", "\"", "t", "i", "t", "l", "e", "\"", ":", " ", "\"", "a", "\\", "n", "b", "\"", ",", " ", "\"", "f", "i", "e", "l", "d", "s", "\"", ":", " ", "{", "\"", "D", "A", "Y", "\"", ":", " ", "\"", "x", "\"", ",", " ", "\"", "T", "I", "M", "E", "\"", ":", " ", "\"", "4", "=", "5", "\"", "}", "}">> \o <<"\n">>>>

\* exactly one line: one line feed, and it is the last byte
OneLine(bytes) ==
    /\ bytes # << >>
    /\ bytes[Len(bytes)] = "\n"
    /\ \A i \in 1..(Len(bytes) - 1) : bytes[i] # "\n"

WellFormedCommand == \A i \in DOMAIN cli.pairs : ~Malformed(cli.pairs[i])

\* the request the command line stands for, as the server should parse it
MeantRequest ==
    IF cli.cmd = "list" THEN Request("obj", Str(LIST_BUTTONS), Absent, NotDict(Absent))
    ELSE IF cli.cmd = "get" THEN Request("obj", Str(GET_TEMPLATE), Str(cli.title), NotDict(Absent))
    ELSE Request("obj", Str(RENDER_TEMPLATE), Str(cli.title), WireFields(cli.fields))

\* C19: against a started, idle server every request the client builds
\* from a well-formed command line is written as exactly one line, which
\* the server parses to the request that was meant and answers with
\* exactly one response line that has an ok member; the client returns that
\* response, never its own "No response from server", which it returns only
\* when the server closed the connection without writing a line.
C19_OneLineEachWay ==
    WellFormedCommand =>
        /\ cli.exc = "" /\ pc # "crashed"
        /\ Len(cli.sent) <= 1
        /\ \A i \in DOMAIN cli.sent : OneLine(cli.sent[i])
        /\ cli.pc \in {"read", "done"} =>
              Len(cli.sent) = 1 /\ conns[CliConn].line = JsonLine(MeantRequest)
        /\ conns[CliConn].st = "closed" =>
              /\ Len(conns[CliConn].out) = 1
              /\ "ok" \in conns[CliConn].out[1].has
              /\ OneLine(ResponseBytes(conns[CliConn].out[1]))
        /\ cli.pc = "done" =>
              /\ cli.result = Returned(conns[CliConn].out[1])
              /\ "ok" \in cli.result.resp.has
        /\ cli.result = Returned(ErrorResp(MsgNoResponse)) =>
              conns[CliConn].st = "closed" /\ conns[CliConn].out = << >>

\* C19 witness: a title is rendered from a template whose body has two
\* lines; the request and the response each went as one line.
C19_Witness ==
    /\ cli.pc = "done" /\ cli.cmd = "render" /\ cli.title = <<"a", "b">>
    /\ cli.pairs = <<<<"D", "A", "Y", "=", "M", "O", "N">>>>
    /\ source = TwoLineSource
    /\ cli.sent = <<<<"{", "\"", "t", "y", "p", "e", "\"", ":", " ", "\"", "R", "E", "N", "D", "E", "R", "_", "T", "E", "M", "P", "L", "A", "T", "E", "\"", ",", " ", "\"", "t", "i", "t", "l", "e", "\"", ":", " ", "\"", "a", "b", "\"", ",", " ", "\"", "f", "i", "e", "l", "d", "s", "\"", ":", " ", "{", "\"", "D", "A", "Y", "\"", ":", " ", "\"", "M", "O", "N", "\"", "}", "}">> \o <<"\n">>>>
    /\ cli.result.resp.ok
    /\ cli.result.resp.body = <<"D", "e", "a", "r", ",", "\n", "s", "e", "e", " ", "y", "o", "u", " ", "M", "O", "N">>
    /\ ResponseBytes(conns[CliConn].out[1]) =
          <<"{", "\"", "o", "k", "\"", ":", " ", "t", "r", "u", "e", ",", " ", "\"", "t", "y", "p", "e", "\"", ":", " ", "\"", "R", "E", "N", "D", "E", "R", "_", "T", "E", "M", "P", "L", "A", "T", "E", "\"", ",", " ", "\"", "t", "i", "t", "l", "e", "\"", ":", " ", "\"", "a", "b", "\"", ",", " ", "\"", "b", "o", "d", "y", "\"", ":", " ", "\"", "D", "e", "a", "r", ",">> \o <<"\\", "n">>
          \o <<"s", "e", "e", " ", "y", "o", "u", " ", "M", "O", "N", "\"", "}">> \o <<"\n">>

====
